---- MODULE Spec2Model ----
(***************************************************************************)
(* A model of multiply's BLAST hit annotator                              *)
(* (src/multiply/blast/annotator.py) and of its primer3 report parser and  *)
(* PrimerPair record (src/multiply/generate/primers.py).                   *)
(*                                                                         *)
(* A pandas DataFrame is a record [columns, rows]: columns is the sequence *)
(* of column labels and rows a sequence of functions from column label to  *)
(* cell value.  A raised Python exception is recorded by its class name in *)
(* ret.exc; "none" means the call returned.                                *)
(***************************************************************************)
EXTENDS Integers, Sequences, FiniteSets, TLC

VARIABLES
    blast_df,          \* BlastResultsAnnotator.blast_df
    annotations,       \* BlastResultsAnnotator.annotations (absent until built)
    blast_primer_df,   \* BlastResultsAnnotator.blast_primer_df (absent until summarised)
    ret,               \* outcome of the last annotator call
    report,            \* lines of the primer3 output file
    loaded,            \* outcome of load_primer_pairs_from_primer3_output
    args,              \* constructor arguments of two PrimerPair instances
    pairs,             \* the two PrimerPair instances once constructed
    cmp                \* outcome of comparing / hashing / set-building the two

vars == <<blast_df, annotations, blast_primer_df, ret, report, loaded, args, pairs, cmp>>

annotVars == <<blast_df, annotations, blast_primer_df, ret>>
parserVars == <<report, loaded>>
pairVars == <<args, pairs, cmp>>

\* Largest number of hits in a modelled hit collection.
MaxHits == 2

(***************************************************************************)
(* Generic helpers                                                         *)
(***************************************************************************)

\* Index of the first position i >= k with s[i] = c, or 0.
RECURSIVE FindFrom(_, _, _)
FindFrom(s, c, k) ==
    IF k > Len(s) THEN 0
    ELSE IF SubSeq(s, k, k) = c THEN k
    ELSE FindFrom(s, c, k + 1)

\* str.split(sep): the parts of s between occurrences of the one-character sep.
RECURSIVE Split(_, _)
Split(s, sep) ==
    LET k == FindFrom(s, sep, 1)
    IN  IF k = 0 THEN <<s>>
        ELSE <<SubSeq(s, 1, k - 1)>> \o Split(SubSeq(s, k + 1, Len(s)), sep)

\* Code point of the characters used in the modelled strings.
Ord(c) ==
    CASE c = "0" -> 48 [] c = "1" -> 49 [] c = "2" -> 50 [] c = "3" -> 51
      [] c = "4" -> 52 [] c = "5" -> 53 [] c = "6" -> 54 [] c = "7" -> 55
      [] c = "8" -> 56 [] c = "9" -> 57
      [] c = " " -> 32 [] c = "+" -> 43 [] c = "," -> 44 [] c = "-" -> 45
      [] c = "." -> 46 [] c = "=" -> 61
      [] c = "A" -> 65 [] c = "C" -> 67 [] c = "F" -> 70 [] c = "G" -> 71
      [] c = "R" -> 82 [] c = "T" -> 84 [] c = "_" -> 95
      [] OTHER -> 0

\* Python's str < str: lexicographic by code point.
RECURSIVE StrLess(_, _)
StrLess(a, b) ==
    IF Len(b) = 0 THEN FALSE
    ELSE IF Len(a) = 0 THEN TRUE
    ELSE IF SubSeq(a, 1, 1) = SubSeq(b, 1, 1)
         THEN StrLess(SubSeq(a, 2, Len(a)), SubSeq(b, 2, Len(b)))
         ELSE Ord(SubSeq(a, 1, 1)) < Ord(SubSeq(b, 1, 1))

\* All sequences over S of length at most n.
SeqsUpTo(S, n) == UNION {[1..k -> S] : k \in 0..n}

\* The permutations of 1..n as sequences.
Perms(n) == {p \in [1..n -> 1..n] : \A i, j \in 1..n : i # j => p[i] # p[j]}

(***************************************************************************)
(* BlastResultsAnnotator                                                   *)
(***************************************************************************)

\* Columns of the BLAST table read by the annotator, with the query length.
BlastColumns == <<"qseqid", "length", "pident", "qend", "qlen", "evalue">>

QseqIds == {"T1_F", "T1_R"}

\* (qend, length) of the modelled alignments: one ending at the end of the
\* query, one ending there but shorter than the query, one ending before it.
Alignments == {<<12, 12>>, <<12, 11>>, <<11, 11>>}

\* The hits a collection is drawn from; the query is 12 bases long.
HitSpace ==
    {[qseqid |-> q, length |-> a[2], pident |-> p, qend |-> a[1], qlen |-> 12, evalue |-> v] :
        q \in QseqIds, a \in Alignments, p \in {90, 100}, v \in {1, 4}}

\* Threshold pairs build_annotation_dict is called with (the defaults first).
Thresholds == {<<12, 4>>, <<11, 1>>}

\* The keys of self.annotations, in insertion order.
AnnotationNames ==
    <<"from_3prime", "length_pass_3prime", "evalue_pass_3prime", "predicted_bound">>

NoAnnotations == [built |-> FALSE]

\* The exception class get_predicted_bound raises for a missing column.
GetPredictedBoundExc == "ValueError"

\* AnnotationFunc with the e-value rule not asking for from_3prime.
AnnotationFuncAnyEnd(name, row, length_threshold, evalue_threshold) ==
    CASE name = "from_3prime" ->
            row["qend"] = row["length"]
      [] name = "length_pass_3prime" ->
            /\ row["length"] >= length_threshold
            /\ row["pident"] = 100
            /\ row["from_3prime"]
      [] name = "evalue_pass_3prime" ->
            row["evalue"] < evalue_threshold
      [] name = "predicted_bound" ->
            row["length_pass_3prime"] \/ row["evalue_pass_3prime"]

\* The lambda stored under `name`, applied to one row.
AnnotationFunc(name, row, length_threshold, evalue_threshold) ==
    CASE name = "from_3prime" ->
            row["qend"] = row["length"]
      [] name = "length_pass_3prime" ->
            /\ row["length"] >= length_threshold
            /\ row["pident"] = 100
            /\ row["from_3prime"]
      [] name = "evalue_pass_3prime" ->
            /\ row["evalue"] < evalue_threshold
            /\ row["from_3prime"]
      [] name = "predicted_bound" ->
            row["length_pass_3prime"] \/ row["evalue_pass_3prime"]

HasColumn(df, name) == \E i \in 1..Len(df.columns) : df.columns[i] = name

\* DataFrame.insert(df.shape[1], name, column): a new last column.
InsertColumn(df, name, column) ==
    [columns |-> Append(df.columns, name),
     rows |-> [i \in 1..Len(df.rows) |->
                 [c \in DOMAIN df.rows[i] \cup {name} |->
                     IF c = name THEN column[i] ELSE df.rows[i][c]]]]

\* The loop of add_annotations from the k-th annotation on: each column is
\* computed from the frame as it is then, and inserted before the next one is
\* computed.  DataFrame.insert refuses a label the frame already has with
\* ValueError, which leaves the earlier inserts in place.
RECURSIVE AddFrom(_, _, _)
AddFrom(df, annot, k) ==
    IF k > Len(AnnotationNames) THEN [df |-> df, exc |-> "none"]
    ELSE LET name == AnnotationNames[k]
             column == [i \in 1..Len(df.rows) |->
                          AnnotationFunc(name, df.rows[i],
                                         annot.length_threshold, annot.evalue_threshold)]
         IN  IF HasColumn(df, name)
             THEN [df |-> df, exc |-> "ValueError"]
             ELSE AddFrom(InsertColumn(df, name, column), annot, k + 1)

\* The outcomes of the loop.  Over a frame without rows DataFrame.apply gives,
\* depending on the pandas release, an empty column (the columns are inserted)
\* or a copy of the frame, which DataFrame.insert refuses with ValueError.
AddOutcomes(df, annot) ==
    {AddFrom(df, annot, 1)}
        \cup (IF Len(df.rows) = 0 THEN {[df |-> df, exc |-> "ValueError"]} ELSE {})

\* QueryPredictedBound keeping the rows whose cell is false.
QueryNotPredictedBound(df) ==
    [columns |-> df.columns,
     rows |-> SelectSeq(df.rows, LAMBDA r : ~r["predicted_bound"])]

\* DataFrame.query("predicted_bound"): the rows whose cell is true, in order.
QueryPredictedBound(df) ==
    [columns |-> df.columns,
     rows |-> SelectSeq(df.rows, LAMBDA r : r["predicted_bound"])]

\* A new annotator over a hit collection; the parser and PrimerPair are not used.
InitAnnotator ==
    /\ blast_df \in {[columns |-> BlastColumns, rows |-> h] : h \in SeqsUpTo(HitSpace, MaxHits)}
    /\ annotations = NoAnnotations
    /\ blast_primer_df = [built |-> FALSE]
    /\ ret = [op |-> "init", exc |-> "none"]
    /\ report = <<>>
    /\ loaded = [exc |-> "unset"]
    /\ args = <<>>
    /\ pairs = <<>>
    /\ cmp = [op |-> "init"]

build_annotation_dict ==
    \E t \in Thresholds :
        /\ annotations' = [built |-> TRUE, length_threshold |-> t[1], evalue_threshold |-> t[2]]
        /\ ret' = [op |-> "build_annotation_dict", exc |-> "none"]
        /\ UNCHANGED <<blast_df, blast_primer_df, parserVars, pairVars>>

add_annotations ==
    /\ IF ~annotations.built
       THEN /\ ret' = [op |-> "add_annotations", exc |-> "AttributeError"]
            /\ UNCHANGED blast_df
       ELSE \E r \in AddOutcomes(blast_df, annotations) :
                /\ blast_df' = r.df
                /\ ret' = [op |-> "add_annotations", exc |-> r.exc,
                           length_threshold |-> annotations.length_threshold,
                           evalue_threshold |-> annotations.evalue_threshold]
    /\ UNCHANGED <<annotations, blast_primer_df, parserVars, pairVars>>

get_predicted_bound ==
    /\ IF ~HasColumn(blast_df, "predicted_bound")
       THEN ret' = [op |-> "get_predicted_bound", exc |-> GetPredictedBoundExc]
       ELSE ret' = [op |-> "get_predicted_bound", exc |-> "none",
                    value |-> QueryPredictedBound(blast_df)]
    /\ UNCHANGED <<blast_df, annotations, blast_primer_df, parserVars, pairVars>>

\* The grouping keys of groupby("qseqid"): the distinct qseqid values, sorted.
GroupKeys(df) ==
    LET K == {df.rows[i]["qseqid"] : i \in 1..Len(df.rows)}
    IN  CHOOSE s \in [1..Cardinality(K) -> K] :
            \A i, j \in 1..Cardinality(K) : i < j => StrLess(s[i], s[j])

\* qseqid.split("_")[0]
TargetName(qseqid) == Split(qseqid, "_")[1]

\* qseqid[:-2]
PrimerPairName(qseqid) == SubSeq(qseqid, 1, Len(qseqid) - 2)

\* GroupSum summing the column over the whole frame, not over the group.
GroupSumWholeFrame(df, qseqid, name) ==
    Cardinality({i \in 1..Len(df.rows) : df.rows[i][name]})

\* qseqid_df[name].sum(): the number of rows of the group whose cell is true.
GroupSum(df, qseqid, name) ==
    Cardinality({i \in 1..Len(df.rows) :
                    df.rows[i]["qseqid"] = qseqid /\ df.rows[i][name]})

\* The PrimerBlastRecord of one group.
PrimerBlastRecord(df, qseqid) ==
    [primer_name |-> qseqid,
     primer_pair_name |-> PrimerPairName(qseqid),
     target_name |-> TargetName(qseqid),
     total_alignments |-> Cardinality({i \in 1..Len(df.rows) : df.rows[i]["qseqid"] = qseqid}),
     from_3prime |-> GroupSum(df, qseqid, "from_3prime"),
     length_pass_3prime |-> GroupSum(df, qseqid, "length_pass_3prime"),
     evalue_pass_3prime |-> GroupSum(df, qseqid, "evalue_pass_3prime"),
     predicted_bound |-> GroupSum(df, qseqid, "predicted_bound")]

\* primer_blast_records: one record per group, in the order groupby yields them.
PrimerBlastRecords(df) ==
    LET keys == GroupKeys(df)
    IN  [k \in 1..Len(keys) |-> PrimerBlastRecord(df, keys[k])]

\* Whether rows i < j of a table may stand in that order after the sort.
SortedPair(a, b) == a.predicted_bound >= b.predicted_bound

\* sort_values("predicted_bound", ascending=False) with the default
\* kind="quicksort", which is not a stable sort: any arrangement of the records
\* with non-increasing predicted_bound is a possible result.
SortValues(records) ==
    {[i \in 1..Len(records) |-> records[p[i]]] : p \in
        {q \in Perms(Len(records)) :
            \A i, j \in 1..Len(records) : i < j => SortedPair(records[q[i]], records[q[j]])}}

\* The first exception summarise_by_primer raises on this frame, or "none".
SummariseExc(df, annot) ==
    IF ~annot.built THEN "AttributeError"
    ELSE IF \E r \in 1..Len(df.rows), k \in 1..Len(AnnotationNames) :
                ~HasColumn(df, AnnotationNames[k])
         THEN "KeyError"      \* qseqid_df[list(self.annotations.keys())]
    ELSE IF Len(df.rows) = 0
         THEN "KeyError"      \* pd.DataFrame([]).sort_values("predicted_bound")
    ELSE "none"

summarise_by_primer ==
    /\ LET exc == SummariseExc(blast_df, annotations)
       IN  IF exc # "none"
           THEN /\ ret' = [op |-> "summarise_by_primer", exc |-> exc]
                /\ UNCHANGED blast_primer_df
           ELSE \E table \in SortValues(PrimerBlastRecords(blast_df)) :
                /\ blast_primer_df' = [built |-> TRUE, rows |-> table]
                /\ ret' = [op |-> "summarise_by_primer", exc |-> "none"]
    /\ UNCHANGED <<blast_df, annotations, parserVars, pairVars>>

NextAnnotator ==
    \/ build_annotation_dict
    \/ add_annotations
    \/ get_predicted_bound
    \/ summarise_by_primer

SpecAnnotator == InitAnnotator /\ [][NextAnnotator]_vars

(***************************************************************************)
(* Primer, PrimerPair and load_primer_pairs_from_primer3_output            *)
(***************************************************************************)

\* Largest number of primer pairs a modelled report declares or holds.
MaxPairs == 2

IsDigit(c) == Ord(c) >= 48 /\ Ord(c) <= 57

\* str.strip(): without leading and trailing blanks.
RECURSIVE Strip(_)
Strip(s) ==
    IF Len(s) = 0 THEN s
    ELSE IF SubSeq(s, 1, 1) = " " THEN Strip(SubSeq(s, 2, Len(s)))
    ELSE IF SubSeq(s, Len(s), Len(s)) = " " THEN Strip(SubSeq(s, 1, Len(s) - 1))
    ELSE s

\* Whether int(s) succeeds, for the unsigned numbers the reports hold: digits,
\* with blanks around them allowed.
IsInt(s) ==
    LET t == Strip(s)
    IN  Len(t) > 0 /\ \A i \in 1..Len(t) : IsDigit(SubSeq(t, i, i))

RECURSIVE DigitsValue(_)
DigitsValue(t) ==
    IF Len(t) = 0 THEN 0
    ELSE 10 * DigitsValue(SubSeq(t, 1, Len(t) - 1)) + (Ord(SubSeq(t, Len(t), Len(t))) - 48)

\* int(s) of a string of digits.
ParseInt(s) == DigitsValue(Strip(s))

RECURSIVE StripZeros(_)
StripZeros(t) ==
    IF Len(t) > 0 /\ SubSeq(t, Len(t), Len(t)) = "0"
    THEN StripZeros(SubSeq(t, 1, Len(t) - 1))
    ELSE t

\* Whether float(s) succeeds for the decimal notations modelled: digits, or
\* digits "." digits.
IsFloat(s) ==
    LET parts == Split(Strip(s), ".")
    IN  /\ Len(parts) \in {1, 2}
        /\ IsInt(parts[1])
        /\ Len(parts) = 2 =>
             \A i \in 1..Len(parts[2]) : IsDigit(SubSeq(parts[2], i, i))

\* float(s): a decimal number m / 10^e, without trailing zeros.
ParseFloat(s) ==
    LET parts == Split(Strip(s), ".")
        frac == IF Len(parts) = 2 THEN StripZeros(parts[2]) ELSE ""
    IN  [m |-> DigitsValue(parts[1] \o frac), e |-> Len(frac)]

\* Primer(seq, direction, start, length, tm, gc): target stays None.
Primer(seq, direction, start, length, tm, gc) ==
    [seq |-> seq, direction |-> direction, start |-> start, length |-> length,
     tm |-> tm, gc |-> gc, target |-> "None"]

\* f"{primer.seq}-{primer.start}-{primer.length}"
PrimerInfo(primer) ==
    primer.seq \o "-" \o ToString(primer.start) \o "-" \o ToString(primer.length)

\* PrimerPair.__post_init__: pair_id is computed from the two primers.
PairId(F, R) == PrimerInfo(F) \o "+" \o PrimerInfo(R)

\* PrimerPair keeping a pair_id that was passed in.
PrimerPairKeepsId(F, R, product_bp, pair_penalty, pair_id) ==
    [F |-> F, R |-> R, product_bp |-> product_bp, pair_penalty |-> pair_penalty,
     pair_id |-> IF pair_id = "" THEN PairId(F, R) ELSE pair_id, target |-> "None"]

\* PrimerPair(F, R, product_bp, pair_penalty, pair_id): the generated __init__
\* stores its arguments, then __post_init__ overwrites pair_id.
PrimerPair(F, R, product_bp, pair_penalty, pair_id) ==
    [[F |-> F, R |-> R, product_bp |-> product_bp, pair_penalty |-> pair_penalty,
      pair_id |-> pair_id, target |-> "None"]
        EXCEPT !.pair_id = PairId(F, R)]

\* line.startswith(prefix)
StartsWith(line, prefix) ==
    Len(line) >= Len(prefix) /\ SubSeq(line, 1, Len(prefix)) = prefix

Marker == "PRIMER_PAIR_NUM_RETURNED"

\* The first loop over the file: the index of the first line that starts with
\* the marker, or 0 when the file ends before one is found.
RECURSIVE MarkerLine(_, _)
MarkerLine(lines, k) ==
    IF k > Len(lines) THEN 0
    ELSE IF StartsWith(lines[k], Marker) THEN k
    ELSE MarkerLine(lines, k + 1)

\* A dict is the sequence of its <<key, value>> items, in insertion order.
DictHas(dt, key) == \E i \in 1..Len(dt) : dt[i][1] = key

DictGet(dt, key) == dt[CHOOSE i \in 1..Len(dt) : dt[i][1] = key][2]

\* dt[key] = value: a key the dict holds keeps its place and takes the value.
DictSet(dt, key, value) ==
    IF DictHas(dt, key)
    THEN [i \in 1..Len(dt) |-> IF dt[i][1] = key THEN <<key, value>> ELSE dt[i]]
    ELSE Append(dt, <<key, value>>)

\* BuildDict keeping the first value a key was given.
RECURSIVE BuildDictFirstWins(_, _, _)
BuildDictFirstWins(lines, k, dt) ==
    IF k > Len(lines) THEN dt
    ELSE LET kv == Split(lines[k], "=")
         IN  BuildDictFirstWins(lines, k + 1,
                                IF DictHas(dt, kv[1]) THEN dt
                                ELSE DictSet(dt, kv[1], Strip(kv[2])))

\* The dict comprehension over the lines from the k-th on, in file order: a
\* later line overwrites the value an earlier line gave its key.
RECURSIVE BuildDict(_, _, _)
BuildDict(lines, k, dt) ==
    IF k > Len(lines) THEN dt
    ELSE LET kv == Split(lines[k], "=")
         IN  BuildDict(lines, k + 1, DictSet(dt, kv[1], Strip(kv[2])))

\* The keys read for one primer, and for one pair, in the order they are read.
PrimerKeys(primer_name) ==
    <<primer_name, primer_name \o "_SEQUENCE", primer_name \o "_TM",
      primer_name \o "_GC_PERCENT">>

PairKeys(pair_name) == <<pair_name \o "_PRODUCT_SIZE", pair_name \o "_PENALTY">>

PrimerName(d, ix) == "PRIMER_" \o d \o "_" \o ToString(ix)

PairName(ix) == "PRIMER_PAIR_" \o ToString(ix)

\* The exception raised while the primer of direction d and index ix is built
\* from the dictionary, or "none": the lookups and conversions in the order
\* they are evaluated.
PrimerExc(dt, d, ix) ==
    LET name == PrimerName(d, ix)
        keys == PrimerKeys(name)
    IN  IF ~DictHas(dt, keys[1]) THEN "KeyError"
        ELSE IF Len(Split(DictGet(dt, name), ",")) # 2 THEN "ValueError"
        ELSE IF ~DictHas(dt, keys[2]) THEN "KeyError"
        ELSE IF \E k \in 1..2 : ~IsInt(Split(DictGet(dt, name), ",")[k]) THEN "ValueError"
        ELSE IF ~DictHas(dt, keys[3]) THEN "KeyError"
        ELSE IF ~IsFloat(DictGet(dt, keys[3])) THEN "ValueError"
        ELSE IF ~DictHas(dt, keys[4]) THEN "KeyError"
        ELSE IF ~IsFloat(DictGet(dt, keys[4])) THEN "ValueError"
        ELSE "none"

\* The Primer built for direction d ("LEFT" or "RIGHT") and index ix.
LoadPrimer(dt, d, ix) ==
    LET name == PrimerName(d, ix)
        sl == Split(DictGet(dt, name), ",")
    IN  Primer(DictGet(dt, name \o "_SEQUENCE"),
               IF d = "LEFT" THEN "F" ELSE "R",
               ParseInt(sl[1]),
               ParseInt(sl[2]),
               ParseFloat(DictGet(dt, name \o "_TM")),
               ParseFloat(DictGet(dt, name \o "_GC_PERCENT")))

\* The exception raised while pair ix is built, or "none".
PairExc(dt, ix) ==
    LET keys == PairKeys(PairName(ix))
    IN  IF PrimerExc(dt, "LEFT", ix) # "none" THEN PrimerExc(dt, "LEFT", ix)
        ELSE IF PrimerExc(dt, "RIGHT", ix) # "none" THEN PrimerExc(dt, "RIGHT", ix)
        ELSE IF ~DictHas(dt, keys[1]) THEN "KeyError"
        ELSE IF ~IsInt(DictGet(dt, keys[1])) THEN "ValueError"
        ELSE IF ~DictHas(dt, keys[2]) THEN "KeyError"
        ELSE IF ~IsFloat(DictGet(dt, keys[2])) THEN "ValueError"
        ELSE "none"

\* The PrimerPair built for index ix.
LoadPair(dt, ix) ==
    PrimerPair(LoadPrimer(dt, "LEFT", ix),
               LoadPrimer(dt, "RIGHT", ix),
               ParseInt(DictGet(dt, PairName(ix) \o "_PRODUCT_SIZE")),
               ParseFloat(DictGet(dt, PairName(ix) \o "_PENALTY")),
               "")

\* LoadPairsFrom returning the pairs built so far when a pair cannot be built.
RECURSIVE LoadPairsFromPartial(_, _, _, _)
LoadPairsFromPartial(dt, ix, n_returned, primer_pairs) ==
    IF ix >= n_returned THEN [exc |-> "none", value |-> primer_pairs]
    ELSE IF PairExc(dt, ix) # "none" THEN [exc |-> "none", value |-> primer_pairs]
    ELSE LoadPairsFromPartial(dt, ix + 1, n_returned, Append(primer_pairs, LoadPair(dt, ix)))

\* The loop over ixs from index ix on: the pairs are appended in index order,
\* and an exception ends the call without a return value.
RECURSIVE LoadPairsFrom(_, _, _, _)
LoadPairsFrom(dt, ix, n_returned, primer_pairs) ==
    IF ix >= n_returned THEN [exc |-> "none", value |-> primer_pairs]
    ELSE IF PairExc(dt, ix) # "none" THEN [exc |-> PairExc(dt, ix)]
    ELSE LoadPairsFrom(dt, ix + 1, n_returned, Append(primer_pairs, LoadPair(dt, ix)))

\* load_primer_pairs_from_primer3_output on a file with these lines.
LoadPrimerPairs(lines) ==
    LET m == MarkerLine(lines, 1)
    IN  IF m = 0 THEN [exc |-> "UnboundLocalError"]      \* n_returned was never bound
        ELSE LET kv == Split(Strip(lines[m]), "=")
             IN  IF Len(kv) < 2 THEN [exc |-> "IndexError"]
                 ELSE IF ~IsInt(kv[2]) THEN [exc |-> "ValueError"]
                 ELSE IF ParseInt(kv[2]) = 0 THEN [exc |-> "none", value |-> <<>>]
                 ELSE IF \E k \in (m + 1)..Len(lines) : Len(Split(lines[k], "=")) # 2
                      THEN [exc |-> "ValueError"]
                 ELSE LoadPairsFrom(BuildDict(lines, m + 1, <<>>), 0, ParseInt(kv[2]), <<>>)

\* The values primer3 reports for one pair, as it writes them.
Profiles ==
    {[left |-> "10,20", left_seq |-> "ACGT", left_tm |-> "60.5", left_gc |-> "50.0",
      right |-> "90,21", right_seq |-> "GGCA", right_tm |-> "61.0", right_gc |-> "52.4",
      product_size |-> "101", penalty |-> "0.2"],
     [left |-> "7,19", left_seq |-> "TTGA", left_tm |-> "59", left_gc |-> "47.4",
      right |-> "120,20", right_seq |-> "CAGT", right_tm |-> "58.25", right_gc |-> "45.0",
      product_size |-> "133 ", penalty |-> "1.50"]}

\* The lines primer3 writes for pair ix.
PairLines(ix, p) ==
    <<PairName(ix) \o "_PENALTY=" \o p.penalty,
      PrimerName("LEFT", ix) \o "_SEQUENCE=" \o p.left_seq,
      PrimerName("RIGHT", ix) \o "_SEQUENCE=" \o p.right_seq,
      PrimerName("LEFT", ix) \o "=" \o p.left,
      PrimerName("RIGHT", ix) \o "=" \o p.right,
      PrimerName("LEFT", ix) \o "_TM=" \o p.left_tm,
      PrimerName("RIGHT", ix) \o "_TM=" \o p.right_tm,
      PrimerName("LEFT", ix) \o "_GC_PERCENT=" \o p.left_gc,
      PrimerName("RIGHT", ix) \o "_GC_PERCENT=" \o p.right_gc,
      PairName(ix) \o "_PRODUCT_SIZE=" \o p.product_size>>

RECURSIVE AllPairLines(_, _)
AllPairLines(ps, k) ==
    IF k > Len(ps) THEN <<>> ELSE PairLines(k - 1, ps[k]) \o AllPairLines(ps, k + 1)

\* A report that declares n pairs and holds the pairs ps: the input record,
\* the marker, the pairs' lines and the closing "=" line.
BaseReport(n, ps) ==
    <<"SEQUENCE_ID=T1", Marker \o "=" \o ToString(n)>> \o AllPairLines(ps, 1) \o <<"=">>

RemoveAt(lines, k) == SubSeq(lines, 1, k - 1) \o SubSeq(lines, k + 1, Len(lines))

InsertAfter(lines, k, line) ==
    SubSeq(lines, 1, k) \o <<line>> \o SubSeq(lines, k + 1, Len(lines))

\* The reports derived from a base report: itself, with one line lost, with
\* the marker further down, and with one key written a second time (by a line
\* of another report about the same pair indexes) before or after its line.
ReportsFrom(base, other) ==
    {base}
        \cup {RemoveAt(base, k) : k \in 1..Len(base)}
        \cup {InsertAfter(RemoveAt(base, 2), k, base[2]) : k \in 2..(Len(base) - 1)}
        \cup {InsertAfter(base, k, other[j]) :
                k \in {2, Len(base) - 1}, j \in 3..(Len(other) - 1)}

Reports ==
    UNION {UNION {ReportsFrom(BaseReport(n, ps), BaseReport(n, qs)) :
                    qs \in [1..Len(ps) -> Profiles]} :
             n \in 0..MaxPairs, ps \in SeqsUpTo(Profiles, MaxPairs)}

NotLoaded == [exc |-> "unset"]

\* A report on disk, not read yet; the annotator and PrimerPair are not used.
InitParser ==
    /\ report \in Reports
    /\ loaded = NotLoaded
    /\ blast_df = [columns |-> BlastColumns, rows |-> <<>>]
    /\ annotations = NoAnnotations
    /\ blast_primer_df = [built |-> FALSE]
    /\ ret = [op |-> "init", exc |-> "none"]
    /\ args = <<>>
    /\ pairs = <<>>
    /\ cmp = [op |-> "init"]

load_primer_pairs_from_primer3_output ==
    /\ loaded' = LoadPrimerPairs(report)
    /\ UNCHANGED <<report, annotVars, pairVars>>

NextParser == load_primer_pairs_from_primer3_output

SpecParser == InitParser /\ [][NextParser]_vars

\* Size of the modelled hash range (CPython's is 2^64).
HashRange == 8191

\* hash(str): a number determined by the characters of the string.
RECURSIVE StrHash(_)
StrHash(t) ==
    IF Len(t) = 0 THEN 0
    ELSE (31 * StrHash(SubSeq(t, 1, Len(t) - 1)) + Ord(SubSeq(t, Len(t), Len(t)))) % HashRange

\* PrimerPair.__hash__
PairHash(pair) == StrHash(pair.pair_id)

\* PrimerPair.__eq__ between two PrimerPair instances.
PairEq(pair, other) == pair.pair_id = other.pair_id

\* set(items): an item is added unless the set holds one with the same hash
\* that is equal to it.
RECURSIVE SetOf(_, _)
SetOf(items, acc) ==
    IF Len(items) = 0 THEN acc
    ELSE LET x == Head(items)
         IN  SetOf(Tail(items),
                   IF \E k \in 1..Len(acc) : PairHash(acc[k]) = PairHash(x) /\ PairEq(acc[k], x)
                   THEN acc ELSE Append(acc, x))

\* Forward and reverse primers the two modelled pairs are built from.
ForwardPrimers ==
    {Primer(q, "F", st, ln, tm, [m |-> 50, e |-> 0]) :
        q \in {"ACGT", "ACG"}, st \in {1, 11}, ln \in {1, 11},
        tm \in {[m |-> 605, e |-> 1], [m |-> 59, e |-> 0]}}

ReversePrimers ==
    {Primer("GGCA", "R", st, 21, [m |-> 61, e |-> 0], [m |-> 524, e |-> 1]) : st \in {90, 91}}

\* Arguments of one PrimerPair(...) call.
PairArgs ==
    [F : ForwardPrimers, R : ReversePrimers, product_bp : {101},
     pair_penalty : {[m |-> 2, e |-> 1], [m |-> 15, e |-> 1]},
     pair_id : {"", "ACGT-1-1+GGCA-90-21"}]

\* The arguments of two PrimerPair calls; the annotator and the parser are not used.
InitPair ==
    /\ args \in [1..2 -> PairArgs]
    /\ pairs = <<>>
    /\ cmp = [op |-> "init"]
    /\ blast_df = [columns |-> BlastColumns, rows |-> <<>>]
    /\ annotations = NoAnnotations
    /\ blast_primer_df = [built |-> FALSE]
    /\ ret = [op |-> "init", exc |-> "none"]
    /\ report = <<>>
    /\ loaded = NotLoaded

construct ==
    /\ pairs' = [k \in 1..2 |->
                   PrimerPair(args[k].F, args[k].R, args[k].product_bp,
                              args[k].pair_penalty, args[k].pair_id)]
    /\ cmp' = [op |-> "construct"]
    /\ UNCHANGED <<args, annotVars, parserVars>>

compare ==
    /\ Len(pairs) = 2
    /\ cmp' = [op |-> "compare",
               eq |-> PairEq(pairs[1], pairs[2]),
               hash1 |-> PairHash(pairs[1]),
               hash2 |-> PairHash(pairs[2])]
    /\ UNCHANGED <<args, pairs, annotVars, parserVars>>

make_set ==
    /\ Len(pairs) = 2
    /\ cmp' = [op |-> "set", value |-> SetOf(pairs, <<>>)]
    /\ UNCHANGED <<args, pairs, annotVars, parserVars>>

NextPair ==
    \/ construct
    \/ compare
    \/ make_set

SpecPair == InitPair /\ [][NextPair]_vars

(***************************************************************************)
(* Properties of the annotator                                             *)
(***************************************************************************)

Annotated == ret.op = "add_annotations" /\ ret.exc = "none"

RowIndexes == 1..Len(blast_df.rows)

\* C1: after build_annotation_dict and add_annotations every hit has
\* predicted_bound = (length_pass_3prime or evalue_pass_3prime), both of which
\* imply from_3prime; length_pass_3prime holds iff length >= length_threshold,
\* pident = 100 and from_3prime; evalue_pass_3prime iff evalue < evalue_threshold
\* and from_3prime.
C1_AnnotationRules ==
    Annotated =>
        \A i \in RowIndexes :
            LET row == blast_df.rows[i]
            IN  /\ row["predicted_bound"] =
                       (row["length_pass_3prime"] \/ row["evalue_pass_3prime"])
                /\ row["length_pass_3prime"] => row["from_3prime"]
                /\ row["evalue_pass_3prime"] => row["from_3prime"]
                /\ row["length_pass_3prime"] <=>
                       (/\ row["length"] >= ret.length_threshold
                        /\ row["pident"] = 100
                        /\ row["from_3prime"])
                /\ row["evalue_pass_3prime"] <=>
                       (row["evalue"] < ret.evalue_threshold /\ row["from_3prime"])

\* A hit bound by its length alone beside one bound by its e-value alone.
C1_Witness ==
    /\ Annotated
    /\ \E i, j \in RowIndexes :
        /\ blast_df.rows[i]["length_pass_3prime"] /\ ~blast_df.rows[i]["evalue_pass_3prime"]
        /\ blast_df.rows[j]["evalue_pass_3prime"] /\ ~blast_df.rows[j]["length_pass_3prime"]
        /\ blast_df.rows[i]["predicted_bound"] /\ blast_df.rows[j]["predicted_bound"]

\* C2: after add_annotations, from_3prime is true iff the hit's qend equals the
\* total length of the query (not the alignment length).
C2_From3PrimeIsQueryEnd ==
    Annotated =>
        \A i \in RowIndexes :
            blast_df.rows[i]["from_3prime"] <=>
                (blast_df.rows[i]["qend"] = blast_df.rows[i]["qlen"])

\* C3: get_predicted_bound raises ValueError exactly when the frame has no
\* predicted_bound column, and leaves the frame as it was; otherwise it returns
\* exactly the hits whose predicted_bound is true (none of them is no error).
C3_GetPredictedBound ==
    [][ret'.op = "get_predicted_bound" =>
         /\ blast_df' = blast_df
         /\ (ret'.exc = "ValueError") <=> ~HasColumn(blast_df, "predicted_bound")
         /\ ret'.exc \in {"ValueError", "none"}
         /\ ret'.exc = "none" =>
              LET bound == {i \in RowIndexes : blast_df.rows[i]["predicted_bound"]}
                  got == ret'.value.rows
              IN  /\ Len(got) = Cardinality(bound)
                  /\ \E f \in [1..Len(got) -> bound] :
                        /\ \A a, b \in 1..Len(got) : a < b => f[a] < f[b]
                        /\ \A a \in 1..Len(got) : got[a] = blast_df.rows[f[a]]
      ]_vars

\* A call that returned some, but not all, of the hits.
C3_Witness ==
    /\ ret.op = "get_predicted_bound"
    /\ ret.exc = "none"
    /\ Len(ret.value.rows) > 0
    /\ Len(ret.value.rows) < Len(blast_df.rows)

MissingAnnotation ==
    \E k \in 1..Len(AnnotationNames) : ~HasColumn(blast_df, AnnotationNames[k])

\* C4 as stated: summarise_by_primer on a frame that lacks an annotation column
\* fails with the class get_predicted_bound raises, and builds no summary table.
C4_SameErrorClass ==
    (ret.op = "summarise_by_primer" /\ annotations.built /\ MissingAnnotation) =>
        ret.exc = GetPredictedBoundExc /\ ~blast_primer_df.built

HitsOf(q) == {i \in RowIndexes : blast_df.rows[i]["qseqid"] = q}

\* C5: the summary table has exactly one record per distinct qseqid;
\* total_alignments is the number of hits of that qseqid and each annotation
\* count the number of them with the annotation true, so 0 <= count <= total.
C5_GroupCounts ==
    blast_primer_df.built =>
        LET t == blast_primer_df.rows
            Q == {blast_df.rows[i]["qseqid"] : i \in RowIndexes}
        IN  /\ Len(t) = Cardinality(Q)
            /\ {t[k].primer_name : k \in 1..Len(t)} = Q
            /\ \A k \in 1..Len(t) :
                /\ t[k].total_alignments = Cardinality(HitsOf(t[k].primer_name))
                /\ \A a \in 1..Len(AnnotationNames) :
                    LET n == t[k][AnnotationNames[a]]
                    IN  /\ n = Cardinality({i \in HitsOf(t[k].primer_name) :
                                               blast_df.rows[i][AnnotationNames[a]]})
                        /\ 0 <= n /\ n <= t[k].total_alignments

\* Two primers, one with a hit that is predicted bound and one without.
C5_Witness ==
    /\ blast_primer_df.built
    /\ Len(blast_primer_df.rows) = 2
    /\ blast_primer_df.rows[1].predicted_bound = 1
    /\ blast_primer_df.rows[2].predicted_bound = 0
    /\ blast_primer_df.rows[2].from_3prime = 1

\* C6: the summary table is in non-increasing order of predicted_bound, and
\* records with equal predicted_bound keep the order in which groupby produced
\* their groups (ascending primer_name).
C6_StableDescending ==
    blast_primer_df.built =>
        LET t == blast_primer_df.rows
        IN  \A i, j \in 1..Len(t) : i < j =>
                /\ t[i].predicted_bound >= t[j].predicted_bound
                /\ t[i].predicted_bound = t[j].predicted_bound =>
                       StrLess(t[i].primer_name, t[j].primer_name)

\* C9: the zero-result cases return an empty result and raise nothing:
\* summarise_by_primer over no hits, get_predicted_bound when no hit is predicted
\* bound, and loading a report that declares no primer pair.
C9_ZeroResults ==
    /\ (/\ ret.op = "summarise_by_primer"
        /\ annotations.built
        /\ ~MissingAnnotation
        /\ Len(blast_df.rows) = 0) =>
            /\ ret.exc = "none"
            /\ blast_primer_df.built
            /\ blast_primer_df.rows = <<>>
    /\ (/\ ret.op = "get_predicted_bound"
        /\ HasColumn(blast_df, "predicted_bound")
        /\ \A i \in RowIndexes : ~blast_df.rows[i]["predicted_bound"]) =>
            ret.exc = "none" /\ ret.value.rows = <<>>
    /\ (/\ loaded.exc # "unset"
        /\ \E k \in 1..Len(report) :
              StartsWith(report[k], "PRIMER_PAIR_NUM_RETURNED=0")
              /\ \A j \in 1..(k - 1) : ~StartsWith(report[j], "PRIMER_PAIR_NUM_RETURNED")) =>
            loaded = [exc |-> "none", value |-> <<>>]

(***************************************************************************)
(* Properties of the parser and of PrimerPair                              *)
(***************************************************************************)

Loaded == loaded # NotLoaded

\* The report read as text: the marker line, the number it declares, and the
\* lines after it.
HasMarker == \E k \in 1..Len(report) : StartsWith(report[k], Marker)

MarkerIndex ==
    CHOOSE k \in 1..Len(report) :
        /\ StartsWith(report[k], Marker)
        /\ \A j \in 1..(k - 1) : ~StartsWith(report[j], Marker)

Declared == ParseInt(Split(report[MarkerIndex], "=")[2])

BodyIndexes == (MarkerIndex + 1)..Len(report)

\* Every line after the marker is one key, "=", one value.
BodyIsKeyValue == \A k \in BodyIndexes : Len(Split(report[k], "=")) = 2

\* The lines from the k-th on, each split at "=".
RECURSIVE SplitLines(_)
SplitLines(k) ==
    IF k > Len(report) THEN <<>> ELSE <<Split(report[k], "=")>> \o SplitLines(k + 1)

\* What the lines after the marker say: for every key they give, the value of
\* the last line that gives it.
Said ==
    LET kv == SplitLines(MarkerIndex + 1)
        last(key) == CHOOSE k \in 1..Len(kv) :
                        kv[k][1] = key /\ \A j \in (k + 1)..Len(kv) : kv[j][1] # key
    IN  [key \in {kv[k][1] : k \in 1..Len(kv)} |-> Strip(kv[last(key)][2])]

ExpectedKeys(ix) ==
    {PrimerName(d, ix) \o suffix :
        d \in {"LEFT", "RIGHT"}, suffix \in {"", "_SEQUENCE", "_TM", "_GC_PERCENT"}}
        \cup {PairName(ix) \o suffix : suffix \in {"_PRODUCT_SIZE", "_PENALTY"}}

ValidValues(said, ix) ==
    /\ \A d \in {"LEFT", "RIGHT"} :
        /\ Len(Split(said[PrimerName(d, ix)], ",")) = 2
        /\ \A k \in 1..2 : IsInt(Split(said[PrimerName(d, ix)], ",")[k])
        /\ IsFloat(said[PrimerName(d, ix) \o "_TM"])
        /\ IsFloat(said[PrimerName(d, ix) \o "_GC_PERCENT"])
    /\ IsInt(said[PairName(ix) \o "_PRODUCT_SIZE"])
    /\ IsFloat(said[PairName(ix) \o "_PENALTY"])

WellFormed(said) ==
    \A ix \in 0..(Declared - 1) :
        /\ ExpectedKeys(ix) \subseteq DOMAIN said
        /\ ValidValues(said, ix)

\* The primer the lines of PRIMER_<d>_<ix> describe.
ExpectedPrimer(said, d, ix, direction) ==
    LET name == PrimerName(d, ix)
    IN  [seq |-> said[name \o "_SEQUENCE"],
         direction |-> direction,
         start |-> ParseInt(Split(said[name], ",")[1]),
         length |-> ParseInt(Split(said[name], ",")[2]),
         tm |-> ParseFloat(said[name \o "_TM"]),
         gc |-> ParseFloat(said[name \o "_GC_PERCENT"]),
         target |-> "None"]

\* C7: a well-formed report that declares N >= 1 pairs yields exactly N
\* PrimerPair records, in index order; record i has F from the PRIMER_LEFT_i
\* keys, R from the PRIMER_RIGHT_i keys and its metrics from the PRIMER_PAIR_i
\* keys, each key with the value of the last line that gives it.
C7_ParserComplete ==
    (Loaded /\ HasMarker /\ BodyIsKeyValue /\ Declared >= 1) =>
        LET said == Said
        IN  WellFormed(said) =>
                /\ loaded.exc = "none"
                /\ Len(loaded.value) = Declared
                /\ \A ix \in 0..(Declared - 1) :
                    LET pair == loaded.value[ix + 1]
                    IN  /\ pair.F = ExpectedPrimer(said, "LEFT", ix, "F")
                        /\ pair.R = ExpectedPrimer(said, "RIGHT", ix, "R")
                        /\ pair.product_bp = ParseInt(said[PairName(ix) \o "_PRODUCT_SIZE"])
                        /\ pair.pair_penalty = ParseFloat(said[PairName(ix) \o "_PENALTY"])

\* Two pairs loaded from a well-formed report in which one key is given twice,
\* with different values.
C7_Witness ==
    /\ Loaded /\ HasMarker /\ BodyIsKeyValue /\ Declared = 2
    /\ WellFormed(Said)
    /\ loaded.exc = "none"
    /\ Len(loaded.value) = 2
    /\ loaded.value[1].F.seq # loaded.value[2].F.seq
    /\ \E j, k \in BodyIndexes :
        /\ j < k
        /\ Split(report[j], "=")[1] = Split(report[k], "=")[1]
        /\ report[j] # report[k]

\* A key of some declared index is given by no line after the marker.
MissingKey ==
    /\ HasMarker
    /\ BodyIsKeyValue
    /\ \E ix \in 0..(Declared - 1) : ~(ExpectedKeys(ix) \subseteq DOMAIN Said)

\* C8: the parser raises and returns no pairs when the report ends without a
\* marker line, and when a key of a declared index is missing, also when the
\* pairs of lower indexes were complete.
C8_FormatErrors ==
    (Loaded /\ (~HasMarker \/ MissingKey)) =>
        /\ loaded.exc \notin {"none", "unset"}
        /\ "value" \notin DOMAIN loaded

\* A key of index 1 is missing while index 0 is complete.
C8_Witness ==
    /\ Loaded /\ HasMarker /\ BodyIsKeyValue /\ Declared = 2
    /\ ExpectedKeys(0) \subseteq DOMAIN Said
    /\ ~(ExpectedKeys(1) \subseteq DOMAIN Said)
    /\ loaded.exc = "KeyError"

Constructed == Len(pairs) = 2

SameTuples(a, b) ==
    /\ a.F.seq = b.F.seq /\ a.F.start = b.F.start /\ a.F.length = b.F.length
    /\ a.R.seq = b.R.seq /\ a.R.start = b.R.start /\ a.R.length = b.R.length

\* C10: pair_id is always "{F.seq}-{F.start}-{F.length}+{R.seq}-{R.start}-{R.length}",
\* whatever pair_id was passed; two pairs are equal and hash identically iff
\* their pair_id match; pairs built from the same (seq, start, length) of both
\* primers are equal, hash identically and are one element of a set, whatever
\* their other fields.
C10_PairIdentity ==
    Constructed =>
        /\ \A k \in 1..2 :
            pairs[k].pair_id =
                args[k].F.seq \o "-" \o ToString(args[k].F.start) \o "-"
                    \o ToString(args[k].F.length) \o "+"
                    \o args[k].R.seq \o "-" \o ToString(args[k].R.start) \o "-"
                    \o ToString(args[k].R.length)
        /\ cmp.op = "compare" =>
            /\ (cmp.eq /\ cmp.hash1 = cmp.hash2) <=> (pairs[1].pair_id = pairs[2].pair_id)
            /\ SameTuples(args[1], args[2]) => (cmp.eq /\ cmp.hash1 = cmp.hash2)
        /\ cmp.op = "set" =>
            /\ Len(cmp.value) = IF pairs[1].pair_id = pairs[2].pair_id THEN 1 ELSE 2
            /\ SameTuples(args[1], args[2]) => Len(cmp.value) = 1

\* Two pairs of the same primers with different penalties and melting
\* temperatures, one of them given a pair_id, found equal.
C10_Witness ==
    /\ Constructed
    /\ cmp.op = "compare" /\ cmp.eq /\ cmp.hash1 = cmp.hash2
    /\ SameTuples(args[1], args[2])
    /\ args[1].pair_penalty # args[2].pair_penalty
    /\ args[1].F.tm # args[2].F.tm
    /\ args[1].pair_id # args[2].pair_id
    /\ args[1].pair_id # pairs[1].pair_id

====
